---- MODULE Spec2Model ----
(***************************************************************************)
(* State-machine model of LspServer (src-vscode-mock/lsp-server.ts): the   *)
(* registry of opened documents, the window's visible/active editors, the  *)
(* request dispatch through executeOnDocument and the build trigger.       *)
(*                                                                         *)
(* Objects are modelled by identity.  Documents and editors live in        *)
(* append-only heaps and are referred to by their index (0 is undefined).  *)
(* A Uri instance is a record of its identity obj and its string value;    *)
(* `===` on two Uri instances compares the identities.                     *)
(*                                                                         *)
(* One action is one run of the event loop: a handler up to its first      *)
(* await on a provider together with the promise reactions that need no    *)
(* outside event, or the continuation of a suspended handler once its      *)
(* provider call has settled.                                              *)
(***************************************************************************)
EXTENDS Integers, Sequences, FiniteSets, Bags, TLC

\* ---------------------------------------------------------------- bounds
MaxOpens == 2
MaxPending == 2

\* ---------------------------------------------------------------- inputs
URIs == {"file:///a.go", "file:///b.go"}
Versions == {1}
Errors == {"err1", "err2"}
ProviderResults == {"undefined", "null", "value"}
Ranges == {"undefined", "range1", "range2"}
RestArgs == {<<>>, <<"arg1">>, <<"arg1", "arg2">>}
ChangeVersions == {1, 2}

Undefined == 0

WORKSPACE_EDIT_COMMAND == "workspace-edit"

\* handlers that go through executeOnDocument and await a provider
Providers ==
    [definition         |-> "definitionProvider.provideDefinition",
     documentSymbol     |-> "documentSymbolProvider.provideDocumentSymbols",
     completion         |-> "completionItemProvider.provideCompletionItems",
     hover              |-> "hoverProvider.provideHover",
     rename             |-> "renameProvider.provideRenameEdits",
     references         |-> "referenceProvider.provideReferences",
     documentFormatting |-> "formattingProvider.provideDocumentFormattingEdits",
     signatureHelp      |-> "signatureHelpProvider.provideSignatureHelp",
     codeAction         |-> "codeActionProvider.provideCodeActions",
     codeLens           |-> "referenceCodeLensProvider.provideCodeLenses"]

Requests == DOMAIN Providers

\* second provider awaited by codeLens
TestCodeLensProvider == "testCodeLensProvider.provideCodeLenses"

\* provider call of codeLensResolve
ResolveCodeLens == "referenceCodeLensProvider.resolveCodeLens"

VARIABLES
    openedDocumentUris,     \* Map<string, TextDocument>: uri -> document or Undefined
    documents,              \* heap of TextDocument objects
    editors,                \* heap of TextEditor objects
    visibleTextEditors,     \* window.visibleTextEditors: sequence of editors
    activeTextEditor,       \* window.activeTextEditor: editor or Undefined
    hasStartedInitialBuild, \* LspServer.hasStartedInitialBuild
    pending,                \* bag of dispatches suspended in an awaited provider call
    lastOpenClose,          \* history: per uri, the client's latest didOpen/didClose
    lastNamed,              \* history: document of the latest didOpen or dispatch
    lens,                   \* history (SpecLens): document of the latest codeLens response
    last                    \* the run that happened last and its outward calls

vars == <<openedDocumentUris, documents, editors, visibleTextEditors,
          activeTextEditor, hasStartedInitialBuild, pending, lastOpenClose,
          lastNamed, lens, last>>

\* ------------------------------------------------------- outward calls
Effect(call, doc, kind, text) ==
    [call |-> call, doc |-> doc, kind |-> kind, text |-> text, args |-> <<>>]

buildCode(force) ==
    Effect("buildCode", Undefined, IF force THEN "true" ELSE "false", "")

showMessage(message, type) ==
    Effect("showMessage", Undefined, type, message)

ResponseError(code, message) ==
    Effect("reject", Undefined, code, message)

NotOpenedError(uri) ==
    Effect("throw", Undefined, "Error", "Document " \o uri \o " has not been opened.")

TypeError(text) ==
    Effect("throw", Undefined, "TypeError", text)

Invoke(provider, document) ==
    Effect(provider, document, "call", "")

Resolve(result) ==
    Effect("resolve", Undefined, "result", result)

executeCommandCall(command, args) ==
    [call |-> "commands.executeCommand", doc |-> Undefined, kind |-> command,
     text |-> "", args |-> args]

\* what the last run did: op is the LspServer method, step is "dispatch" for
\* the handler up to its first await and "resume" for the continuation after
\* the awaited provider call settled, err is the error the collaborator
\* raised ("" for none), effects the outward calls in order
\* args, version and result are the handler's further inputs: the arguments of
\* executeCommand, the version of didChange, what the provider resolved with
Handled(op, step, uri, err, effects) ==
    [op |-> op, step |-> step, uri |-> uri, err |-> err, effects |-> effects,
     args |-> <<>>, version |-> 0, result |-> ""]

\* ------------------------------------------------------------- objects
\* Uri.parse builds a new Uri instance on every call
UriParse(value, obj) == [obj |-> obj, value |-> value]

\* an identity that no Uri instance held by a document has
FreshObj(docs) == Len(docs) + 1

TextDocument(uri, version, obj) ==
    [uri |-> UriParse(uri, obj), version |-> version]

\* TextDocument.apply(contentChanges, version)
apply(document, version) == [document EXCEPT !.version = version]

TextEditor(document) ==
    [document |-> document, selection |-> "undefined"]

\* new Selection(new Range(selection.start, selection.end))
Selection(range) == range

\* ------------------------------------------------------------- helpers
Min(S) == CHOOSE x \in S : \A y \in S : x <= y

\* a === b on two Uri instances
identical_byValue(a, b) == a.value = b.value
identical(a, b) == a.obj = b.obj

\* Map.set and Map.delete on openedDocumentUris
set_keepExisting(map, uri, document) ==
    IF map[uri] # Undefined THEN map ELSE [map EXCEPT ![uri] = document]
set(map, uri, document) == [map EXCEPT ![uri] = document]

delete_nothing(map, uri) == map
delete(map, uri) == [map EXCEPT ![uri] = Undefined]

\* Array.prototype.push on window.visibleTextEditors
push_front(visible, editor) == <<editor>> \o visible
push(visible, editor) == Append(visible, editor)

\* LspServer.getOpenDocument: the document, or Undefined when it throws
getOpenDocument_anyOpen(map, uri) ==
    IF map[uri] # Undefined THEN map[uri]
    ELSE LET open == {map[u] : u \in DOMAIN map}
         IN  CHOOSE d \in open : \A e \in open : e <= d
getOpenDocument(map, uri) == map[uri]

\* LspServer.activateEditor without selection: Array.prototype.find
activateEditor_first(visible, eds, docs, document) ==
    IF visible = <<>> THEN Undefined ELSE visible[1]
activateEditor(visible, eds, docs, document) ==
    LET hits == {i \in 1..Len(visible) :
                    identical(docs[eds[visible[i]].document].uri, docs[document].uri)}
    IN  IF hits = {} THEN Undefined ELSE visible[Min(hits)]

\* the loop of didCloseTextDocument: 0-based index of the first editor whose
\* document.uri is identical to uri, or the length of the list
closeIndex(visible, eds, docs, uri) ==
    LET hits == {i \in 1..Len(visible) :
                    identical(docs[eds[visible[i]].document].uri, uri)}
    IN  IF hits = {} THEN Len(visible) ELSE Min(hits) - 1

\* Array.prototype.splice(i) with a single argument: drops everything from i on
splice(visible, i) == SubSeq(visible, 1, i)

\* the .catch of executeOnDocument
catch_silent(err) == <<ResponseError("InvalidRequest", err)>>
catch(err) == <<showMessage(err, "Error"), ResponseError("InvalidRequest", err)>>

\* didSaveTextDocument's lambda followed by .then(() => buildCode(false))
saveThenBuild_buildFirst(document) ==
    <<buildCode(FALSE), Invoke("document.save", document)>>
saveThenBuild(document) ==
    <<Invoke("document.save", document), buildCode(FALSE)>>

\* window.activeTextEditor after the continuation of a dispatch on document:
\* nothing after the await touches it
resumedEditor_reactivate(active, visible, eds, docs, document) ==
    activateEditor(visible, eds, docs, document)
resumedEditor(active, visible, eds, docs, document) == active

\* ---------------------------------------------------------------- Init
Init ==
    /\ openedDocumentUris = [u \in URIs |-> Undefined]
    /\ documents = <<>>
    /\ editors = <<>>
    /\ visibleTextEditors = <<>>
    /\ activeTextEditor = Undefined
    /\ hasStartedInitialBuild = FALSE
    /\ pending = EmptyBag
    /\ lastOpenClose = [u \in URIs |-> "none"]
    /\ lastNamed = Undefined
    /\ lens = Undefined
    /\ last = Handled("constructor", "dispatch", "", "", <<>>)

\* ------------------------------------------------------------- actions
didOpenTextDocument(uri, version) ==
    /\ Len(documents) < MaxOpens
    /\ LET document == Len(documents) + 1
           editor == Len(editors) + 1
       IN  /\ documents' = Append(documents, TextDocument(uri, version, FreshObj(documents)))
           /\ openedDocumentUris' = set(openedDocumentUris, uri, document)
           /\ editors' = Append(editors, TextEditor(document))
           /\ visibleTextEditors' = push(visibleTextEditors, editor)
           /\ activeTextEditor' = editor
           /\ lastNamed' = document
    /\ hasStartedInitialBuild' = TRUE
    /\ lastOpenClose' = [lastOpenClose EXCEPT ![uri] = "open"]
    /\ last' = Handled("didOpen", "dispatch", uri, "", <<buildCode(FALSE)>>)
    /\ UNCHANGED <<pending, lens>>

didCloseTextDocument(uri) ==
    /\ openedDocumentUris' = delete(openedDocumentUris, uri)
    /\ LET i == closeIndex(visibleTextEditors, editors, documents,
                           UriParse(uri, FreshObj(documents)))
       IN  visibleTextEditors' =
               IF i < Len(visibleTextEditors)
               THEN splice(visibleTextEditors, i)
               ELSE visibleTextEditors
    /\ lastOpenClose' = [lastOpenClose EXCEPT ![uri] = "close"]
    /\ last' = Handled("didClose", "dispatch", uri, "", <<>>)
    /\ UNCHANGED <<documents, editors, activeTextEditor, hasStartedInitialBuild,
                   pending, lastNamed, lens>>

\* executeOnDocument when getOpenDocument throws: the Error leaves the
\* handler, nothing else has happened
NotOpened(op, uri) ==
    /\ getOpenDocument(openedDocumentUris, uri) = Undefined
    /\ last' = Handled(op, "dispatch", uri, "", <<NotOpenedError(uri)>>)
    /\ UNCHANGED <<openedDocumentUris, documents, editors, visibleTextEditors,
                   activeTextEditor, hasStartedInitialBuild, pending,
                   lastOpenClose, lastNamed, lens>>

\* the lambda of didChangeTextDocument: lambda.call runs it to its end, there
\* is no await before document.apply
applied_later(docs, document, version) == docs
applied(docs, document, version) == [docs EXCEPT ![document] = apply(@, version)]

didChangeTextDocument(uri, version, err) ==
    \/ NotOpened("didChange", uri)
    \/ LET document == getOpenDocument(openedDocumentUris, uri)
       IN  /\ document # Undefined
           /\ activeTextEditor' =
                  activateEditor(visibleTextEditors, editors, documents, document)
           /\ lastNamed' = document
           /\ IF err = ""
              THEN /\ documents' = applied(documents, document, version)
                   /\ last' = [Handled("didChange", "dispatch", uri, err,
                                       <<Invoke("document.apply", document)>>)
                               EXCEPT !.version = version]
              ELSE /\ documents' = documents
                   /\ last' = [Handled("didChange", "dispatch", uri, err,
                                       <<Invoke("document.apply", document)>> \o catch(err))
                               EXCEPT !.version = version]
           /\ UNCHANGED <<openedDocumentUris, editors, visibleTextEditors,
                          hasStartedInitialBuild, pending, lastOpenClose, lens>>

didSaveTextDocument(uri, err) ==
    \/ NotOpened("didSave", uri)
    \/ LET document == getOpenDocument(openedDocumentUris, uri)
       IN  /\ document # Undefined
           /\ activeTextEditor' =
                  activateEditor(visibleTextEditors, editors, documents, document)
           /\ lastNamed' = document
           /\ IF err = ""
              THEN last' = Handled("didSave", "dispatch", uri, err, saveThenBuild(document))
              ELSE last' = Handled("didSave", "dispatch", uri, err,
                                   <<Invoke("document.save", document)>> \o catch(err))
           /\ UNCHANGED <<openedDocumentUris, documents, editors, visibleTextEditors,
                          hasStartedInitialBuild, pending, lastOpenClose, lens>>

\* what a handler's lambda does with the provider's result: the six handlers
\* that return the provider's promise unchanged share the continuation "return"
Continuation(op) ==
    IF op \in {"definition", "documentSymbol", "completion", "codeLens"}
    THEN op ELSE "return"

Suspended(op, document, await) ==
    [then |-> Continuation(op), document |-> document, await |-> await]

\* definition, documentSymbol, completion, hover, rename, references,
\* documentFormatting, signatureHelp, codeAction, codeLens up to their first await
request(op, uri) ==
    \/ NotOpened(op, uri)
    \/ LET document == getOpenDocument(openedDocumentUris, uri)
       IN  /\ document # Undefined
           /\ BagCardinality(pending) < MaxPending
           /\ activeTextEditor' =
                  activateEditor(visibleTextEditors, editors, documents, document)
           /\ lastNamed' = document
           /\ pending' = pending (+) SetToBag({Suspended(op, document, 1)})
           /\ last' = Handled(op, "dispatch", uri, "", <<Invoke(Providers[op], document)>>)
           /\ UNCHANGED <<openedDocumentUris, documents, editors, visibleTextEditors,
                          hasStartedInitialBuild, lastOpenClose, lens>>

\* the results a provider is declared to produce
ResultsOf(then) ==
    IF then \in {"documentSymbol", "completion", "codeLens"}
    THEN {"value"} ELSE ProviderResults

\* what the lambda of the handler returns for the provider's result
Response_asIs(then, result) == result
Response(then, result) ==
    CASE then = "definition" -> IF result \in {"undefined", "null"} THEN "[]" ELSE result
      [] then = "completion" -> "{isIncomplete: false, items: " \o result \o "}"
      [] OTHER -> result

\* the awaited provider call of the suspended dispatch p resolves; the
\* history variable lens is kept only when track is set
providerResolves(p, result, track) ==
    /\ BagIn(p, pending)
    /\ result \in ResultsOf(p.then)
    /\ IF p.then = "codeLens" /\ p.await = 1
       THEN /\ pending' = (pending (-) SetToBag({p}))
                              (+) SetToBag({[p EXCEPT !.await = 2]})
            /\ last' = [Handled(p.then, "resume", documents[p.document].uri.value, "",
                                <<Invoke(TestCodeLensProvider, p.document)>>)
                            EXCEPT !.result = result]
       ELSE /\ pending' = pending (-) SetToBag({p})
            /\ last' = [Handled(p.then, "resume", documents[p.document].uri.value, "",
                                <<Resolve(Response(p.then, result))>>)
                            EXCEPT !.result = result]
    /\ lens' = IF track /\ p.then = "codeLens" /\ p.await = 2 THEN p.document ELSE lens
    /\ activeTextEditor' = resumedEditor(activeTextEditor, visibleTextEditors,
                                         editors, documents, p.document)
    /\ UNCHANGED <<openedDocumentUris, documents, editors, visibleTextEditors,
                   hasStartedInitialBuild, lastOpenClose, lastNamed>>

\* the awaited provider call of the suspended dispatch p rejects with err
providerRejects(p, err) ==
    /\ BagIn(p, pending)
    /\ pending' = pending (-) SetToBag({p})
    /\ last' = Handled(p.then, "resume", documents[p.document].uri.value, err, catch(err))
    /\ activeTextEditor' = resumedEditor(activeTextEditor, visibleTextEditors,
                                         editors, documents, p.document)
    /\ UNCHANGED <<openedDocumentUris, documents, editors, visibleTextEditors,
                   hasStartedInitialBuild, lastOpenClose, lastNamed, lens>>

\* args.slice(0, -2)
slice_all(args) == args
slice(args) == SubSeq(args, 1, Len(args) - 2)

\* an outward call together with the window state it finds when it is made:
\* the document and the selection of the active editor
atCall(effect, eds, active) ==
    [effect EXCEPT !.doc = IF active = Undefined THEN Undefined ELSE eds[active].document,
                   !.text = IF active = Undefined THEN "undefined" ELSE eds[active].selection]

\* executeCommand: params.arguments is rest followed by the uri and the range
executeCommand(command, rest, uri, range) ==
    LET args == rest \o <<uri, range>>
        document == getOpenDocument(openedDocumentUris, args[Len(args) - 1])
        selection == args[Len(args)]
        editor == activateEditor(visibleTextEditors, editors, documents, document)
    IN  \/ /\ document = Undefined
           /\ last' = [Handled("executeCommand", "dispatch", uri, "", <<NotOpenedError(uri)>>)
                       EXCEPT !.args = args]
           /\ UNCHANGED <<openedDocumentUris, documents, editors, visibleTextEditors,
                          activeTextEditor, hasStartedInitialBuild, pending,
                          lastOpenClose, lastNamed, lens>>
        \/ /\ document # Undefined
           /\ activeTextEditor' = editor
           /\ lastNamed' = document
           /\ IF selection # "undefined" /\ editor = Undefined
              THEN /\ editors' = editors
                   /\ last' = [Handled("executeCommand", "dispatch", uri, "",
                                       <<TypeError("Cannot set property 'selection' of undefined")>>)
                               EXCEPT !.args = args]
              ELSE /\ editors' = IF selection # "undefined"
                                 THEN [editors EXCEPT ![editor].selection = Selection(selection)]
                                 ELSE editors
                   /\ last' = [Handled("executeCommand", "dispatch", uri, "",
                                       <<atCall(executeCommandCall(command, slice(args)),
                                                editors', activeTextEditor')>>)
                               EXCEPT !.args = args]
           /\ UNCHANGED <<openedDocumentUris, documents, visibleTextEditors,
                          hasStartedInitialBuild, pending, lastOpenClose, lens>>

\* codeLensResolve of a lens the latest codeLens response returned
codeLensResolve ==
    /\ lens # Undefined
    /\ IF activeTextEditor = Undefined
       THEN last' = Handled("codeLensResolve", "dispatch", documents[lens].uri.value, "",
                            <<TypeError("Cannot read property 'document' of undefined")>>)
       ELSE last' = Handled("codeLensResolve", "dispatch", documents[lens].uri.value, "",
                            <<Invoke(ResolveCodeLens, editors[activeTextEditor].document)>>)
    /\ UNCHANGED <<openedDocumentUris, documents, editors, visibleTextEditors,
                   activeTextEditor, hasStartedInitialBuild, pending,
                   lastOpenClose, lastNamed, lens>>

\* what documentHighlight returns for a request on uri
highlights_ofOpenDocument(map, uri) ==
    IF getOpenDocument(map, uri) = Undefined
    THEN <<NotOpenedError(uri)>> ELSE <<Resolve("[]")>>
highlights(map, uri) == <<Resolve("[]")>>

documentHighlight(uri) ==
    /\ last' = Handled("documentHighlight", "dispatch", uri, "",
                       highlights(openedDocumentUris, uri))
    /\ UNCHANGED <<openedDocumentUris, documents, editors, visibleTextEditors,
                   activeTextEditor, hasStartedInitialBuild, pending,
                   lastOpenClose, lastNamed, lens>>

Next ==
    \/ \E uri \in URIs, version \in Versions : didOpenTextDocument(uri, version)
    \/ \E uri \in URIs : didCloseTextDocument(uri)
    \/ \E uri \in URIs, version \in Versions, err \in Errors \cup {""} :
           didChangeTextDocument(uri, version, err)
    \/ \E uri \in URIs, err \in Errors \cup {""} : didSaveTextDocument(uri, err)
    \/ \E op \in Requests, uri \in URIs : request(op, uri)
    \/ \E p \in BagToSet(pending), result \in ProviderResults :
           providerResolves(p, result, FALSE)
    \/ \E p \in BagToSet(pending), err \in Errors : providerRejects(p, err)
    \/ \E uri \in URIs :
           executeCommand(WORKSPACE_EDIT_COMMAND, <<"arg1">>, uri, "undefined")
    \/ \E uri \in URIs : documentHighlight(uri)

Spec == Init /\ [][Next]_vars

\* commands with a selection, interleaved with opens, closes and hover requests
NextCommand ==
    \/ \E uri \in URIs, version \in Versions : didOpenTextDocument(uri, version)
    \/ \E uri \in URIs : didCloseTextDocument(uri)
    \/ \E uri \in URIs : request("hover", uri)
    \/ \E p \in BagToSet(pending), result \in ProviderResults :
           providerResolves(p, result, FALSE)
    \/ \E p \in BagToSet(pending), err \in Errors : providerRejects(p, err)
    \/ \E rest \in RestArgs, uri \in URIs, range \in Ranges :
           executeCommand(WORKSPACE_EDIT_COMMAND, rest, uri, range)

SpecCommand == Init /\ [][NextCommand]_vars

\* changes with several versions, interleaved with opens, closes and hover requests
NextChange ==
    \/ \E uri \in URIs, version \in ChangeVersions : didOpenTextDocument(uri, version)
    \/ \E uri \in URIs : didCloseTextDocument(uri)
    \/ \E uri \in URIs, version \in ChangeVersions, err \in Errors \cup {""} :
           didChangeTextDocument(uri, version, err)
    \/ \E uri \in URIs : request("hover", uri)
    \/ \E p \in BagToSet(pending), result \in ProviderResults :
           providerResolves(p, result, FALSE)
    \/ \E p \in BagToSet(pending), err \in Errors : providerRejects(p, err)

SpecChange == Init /\ [][NextChange]_vars

\* code lenses: codeLens requests, their responses kept in lens, codeLensResolve,
\* interleaved with opens, closes and hover requests
NextLens ==
    \/ \E uri \in URIs, version \in Versions : didOpenTextDocument(uri, version)
    \/ \E uri \in URIs : didCloseTextDocument(uri)
    \/ \E op \in {"codeLens", "hover"}, uri \in URIs : request(op, uri)
    \/ \E p \in BagToSet(pending), result \in ProviderResults :
           providerResolves(p, result, TRUE)
    \/ \E p \in BagToSet(pending), err \in Errors : providerRejects(p, err)
    \/ codeLensResolve

SpecLens == Init /\ [][NextLens]_vars

\* ================================================================ claims
\* the handlers that run through executeOnDocument
DocumentOps == Requests \cup {"didChange", "didSave"}

\* the collaborator a handler calls with the resolved document
Collaborator(op) ==
    CASE op = "didChange" -> "document.apply"
      [] op = "didSave" -> "document.save"
      [] OTHER -> Providers[op]

\* the document the latest didOpen of uri created
LatestOpened(uri) ==
    LET ds == {d \in 1..Len(documents) : documents[d].uri.value = uri}
    IN  CHOOSE d \in ds : \A e \in ds : e <= d

Calls(effects, call) == {i \in 1..Len(effects) : effects[i].call = call}

DispatchOn(state) ==
    /\ last.step = "dispatch"
    /\ last.op \in DocumentOps
    /\ lastOpenClose[last.uri] = state

\* C1: a document-based request on a uri whose latest open/close event is a
\* didClose fails with the 'has not been opened' error and calls no provider:
\* the only outward effect of the handler is that Error.
ClosedDocumentFails ==
    DispatchOn("close") => last.effects = <<NotOpenedError(last.uri)>>

ClosedDocumentFailsWitness ==
    /\ DispatchOn("close")
    /\ Len(documents) > 0
    /\ documents[Len(documents)].uri.value = last.uri
    /\ last.effects = <<NotOpenedError(last.uri)>>

\* C2: a document-based request on a uri whose latest open/close event is a
\* didOpen does not fail with DocumentNotOpen; the first thing the handler
\* calls is its provider, with the document the latest didOpen(uri) stored.
OpenDocumentResolved ==
    DispatchOn("open") =>
        /\ Len(last.effects) >= 1
        /\ last.effects[1] = Invoke(Collaborator(last.op), LatestOpened(last.uri))
        /\ Calls(last.effects, "throw") = {}

\* a request on a uri that was opened twice, with another uri closed meanwhile
OpenDocumentResolvedWitness ==
    /\ DispatchOn("open")
    /\ Cardinality({d \in 1..Len(documents) : documents[d].uri.value = last.uri}) >= 2
    /\ last.effects[1] = Invoke(Collaborator(last.op), LatestOpened(last.uri))

\* C3: before the first didOpen window.activeTextEditor is unset, and in
\* every state after it (after closes, after the activation step of any
\* dispatch) it is a defined editor.
OneActiveEditor ==
    IF Len(documents) = 0
    THEN activeTextEditor = Undefined
    ELSE activeTextEditor \in 1..Len(editors)

\* a dispatch activated an editor after a document was closed
OneActiveEditorWitness ==
    /\ last.step = "dispatch"
    /\ last.op \in DocumentOps
    /\ \E u \in URIs : lastOpenClose[u] = "close" /\ u # last.uri
    /\ Len(documents) >= 2
    /\ activeTextEditor \in 1..Len(editors)
    /\ lastNamed = editors[activeTextEditor].document
\* visible without its first editor whose document's uri is uri
RemoveFirst(visible, uri) ==
    LET hits == {i \in 1..Len(visible) :
                    documents[editors[visible[i]].document].uri.value = uri}
    IN  IF hits = {} THEN visible
        ELSE SubSeq(visible, 1, Min(hits) - 1) \o SubSeq(visible, Min(hits) + 1, Len(visible))

\* C4: didClose(u) removes u from the registry and removes from the
\* visible-editor list only the first editor whose document uri is u; every
\* other visible editor stays, in its original order.
CloseRemovesFirstMatch ==
    [][last'.op = "didClose" =>
          /\ openedDocumentUris'[last'.uri] = Undefined
          /\ visibleTextEditors' = RemoveFirst(visibleTextEditors, last'.uri)]_vars

\* C5: the first didOpen handled by the server triggers a build and no
\* later didOpen triggers another one.
BuildOnFirstOpenOnly ==
    [][last'.op = "didOpen" =>
          (Calls(last'.effects, "buildCode") # {} <=> ~hasStartedInitialBuild)]_vars

SaveThenBuild ==
    last.op = "didSave" =>
        IF openedDocumentUris[last.uri] # Undefined /\ last.err = ""
        THEN last.effects = <<Invoke("document.save", openedDocumentUris[last.uri]),
                              buildCode(FALSE)>>
        ELSE Calls(last.effects, "buildCode") = {}

SaveThenBuildWitness ==
    /\ last.op = "didSave"
    /\ last.err = ""
    /\ Len(last.effects) = 2
    /\ last.effects[1].call = "document.save"
    /\ last.effects[2] = buildCode(FALSE)

\* C8: when the provider call of a dispatch fails with error e the client
\* gets exactly one showMessage of type Error and the request fails with
\* exactly one InvalidRequest ResponseError, both with message e; when the
\* provider call succeeds there is no showMessage.
FailureReportedOnce ==
    IF last.err # ""
    THEN /\ Cardinality(Calls(last.effects, "showMessage")) = 1
         /\ Cardinality(Calls(last.effects, "reject")) = 1
         /\ \A i \in Calls(last.effects, "showMessage") :
                last.effects[i] = showMessage(last.err, "Error")
         /\ \A i \in Calls(last.effects, "reject") :
                last.effects[i] = ResponseError("InvalidRequest", last.err)
    ELSE Calls(last.effects, "showMessage") = {}

\* an awaited provider call rejected
FailureReportedOnceWitness ==
    /\ last.step = "resume"
    /\ last.err \in Errors
    /\ last.effects = <<showMessage(last.err, "Error"),
                        ResponseError("InvalidRequest", last.err)>>

\* C9: the active editor is the editor of the document named by the most
\* recent didOpen or dispatch (in every state, also while requests are in
\* flight).
LastNamedIsActive ==
    lastNamed # Undefined =>
        /\ activeTextEditor # Undefined
        /\ editors[activeTextEditor].document = lastNamed

\* didOpen(A), didOpen(B), then a dispatch on A: A's editor is active again
LastNamedIsActiveWitness ==
    /\ DispatchOn("open")
    /\ Len(documents) >= 2
    /\ documents[Len(documents)].uri.value # last.uri
    /\ activeTextEditor # Undefined
    /\ activeTextEditor # Len(editors)
    /\ editors[activeTextEditor].document = openedDocumentUris[last.uri]

\* C10: the continuation of a suspended dispatch does not touch the active
\* editor: when A's provider call resumes after a dispatch on B, B's editor
\* stays active.
ResumeKeepsActiveEditor ==
    [][last'.step = "resume" => activeTextEditor' = activeTextEditor]_vars

\* A's provider call has resumed while the request on B is still pending and
\* the active editor is B's: before that step the request on A was pending
\* with B's editor active
ResumeKeepsActiveEditorWitness ==
    /\ last.step = "resume"
    /\ activeTextEditor # Undefined
    /\ documents[editors[activeTextEditor].document].uri.value # last.uri
    /\ lastOpenClose[last.uri] = "open"
    /\ \E p \in BagToSet(pending) : p.document = editors[activeTextEditor].document
\* C11: executeCommand with arguments [a1..an, uri, range], uri open, makes
\* the editor of the document at uri the active editor and sets its selection
\* to range, and the command it then invokes finds that editor and selection
\* and gets exactly the arguments [a1..an].
CommandAfterActivation ==
    (last.op = "executeCommand" /\ openedDocumentUris[last.uri] # Undefined) =>
        LET n == Len(last.args)
            range == last.args[n]
            document == openedDocumentUris[last.args[n - 1]]
        IN  /\ activeTextEditor # Undefined
            /\ editors[activeTextEditor].document = document
            /\ range # "undefined" => editors[activeTextEditor].selection = range
            /\ last.effects =
                   <<[call |-> "commands.executeCommand", doc |-> document,
                      kind |-> WORKSPACE_EDIT_COMMAND,
                      text |-> editors[activeTextEditor].selection,
                      args |-> SubSeq(last.args, 1, n - 2)]>>

\* [a, b, uri, range] on a document that was not the active one and had
\* another selection
CommandAfterActivationWitness ==
    /\ last.op = "executeCommand"
    /\ Len(last.args) = 4
    /\ last.args[4] = "range2"
    /\ openedDocumentUris[last.uri] # Undefined
    /\ openedDocumentUris[last.uri] # Len(documents)
    /\ last.effects[1].args = <<"arg1", "arg2">>
    /\ last.effects[1].text = "range2"
    /\ \E e \in 1..Len(editors) : editors[e].selection = "range1"
\* C12: a request whose uri is not in the registry fails at the lookup and
\* leaves the session state as it was: registry, visible editors, active
\* editor and selections are unchanged, no provider is called (nothing gets
\* suspended) and no build is triggered; its only effect is the Error.
FailedLookupChangesNothing ==
    [][(/\ last'.step = "dispatch"
        /\ last'.op \in DocumentOps \cup {"executeCommand"}
        /\ openedDocumentUris[last'.uri] = Undefined) =>
          /\ last'.effects = <<NotOpenedError(last'.uri)>>
          /\ UNCHANGED <<openedDocumentUris, documents, editors, visibleTextEditors,
                         activeTextEditor, pending, hasStartedInitialBuild>>]_vars

\* a request on a uri that was never opened, while another document is open,
\* has the active editor and has a request suspended
FailedLookupChangesNothingWitness ==
    /\ last.step = "dispatch"
    /\ last.op \in Requests
    /\ lastOpenClose[last.uri] = "none"
    /\ last.effects = <<NotOpenedError(last.uri)>>
    /\ activeTextEditor # Undefined
    /\ pending # EmptyBag
\* C13: documentHighlight returns the empty list for every input in every
\* reachable state, never fails, and changes neither the registry nor the
\* visible or active editors.
HighlightIsEmpty ==
    [][last'.op = "documentHighlight" =>
          /\ last'.effects = <<Resolve("[]")>>
          /\ UNCHANGED <<openedDocumentUris, documents, editors, visibleTextEditors,
                         activeTextEditor, pending, hasStartedInitialBuild>>]_vars

\* documentHighlight before any document was opened
HighlightIsEmptyWitness ==
    /\ last.op = "documentHighlight"
    /\ Len(documents) = 0
    /\ openedDocumentUris[last.uri] = Undefined
    /\ last.effects = <<Resolve("[]")>>
\* C14: a didChange on an open document applies its version to the document
\* inside the handler run itself, without suspension, also while other
\* requests are suspended; nothing but a didChange alters a document, so the
\* changes take effect one after the other in the order received and the
\* document has the version of the last didChange.
ChangesAppliedInOrder ==
    [][/\ (/\ last'.op = "didChange"
           /\ last'.err = ""
           /\ openedDocumentUris[last'.uri] # Undefined) =>
              LET document == openedDocumentUris[last'.uri]
              IN  /\ documents'[document].version = last'.version
                  /\ \A d \in 1..Len(documents) :
                         d # document => documents'[d] = documents[d]
                  /\ last'.effects = <<Invoke("document.apply", document)>>
                  /\ pending' = pending
       /\ last'.op # "didChange" =>
              \A d \in 1..Len(documents) : documents'[d] = documents[d]]_vars

\* a didChange to version 1, applied while a request on that document is
\* suspended
ChangesAppliedInOrderWitness ==
    /\ last.op = "didChange"
    /\ last.err = ""
    /\ last.version = 1
    /\ openedDocumentUris[last.uri] # Undefined
    /\ documents[openedDocumentUris[last.uri]].version = 1
    /\ \E p \in BagToSet(pending) : p.document = openedDocumentUris[last.uri]
\* C15: definition on an open document never returns null or undefined: when
\* the provider resolves with no result the response is the empty list, and
\* otherwise it is the provider's result.
DefinitionNeverNull ==
    (last.op = "definition" /\ last.step = "resume" /\ last.err = "") =>
        /\ Len(last.effects) = 1
        /\ last.effects[1].call = "resolve"
        /\ last.effects[1].text \notin {"undefined", "null"}
        /\ last.effects[1].text =
               IF last.result \in {"undefined", "null"} THEN "[]" ELSE last.result

DefinitionNeverNullWitness ==
    /\ last.op = "definition"
    /\ last.step = "resume"
    /\ last.result = "undefined"
    /\ last.effects = <<Resolve("[]")>>
\* C16: the active editor, when set, references a document that is in the
\* registry; in particular after didClose(u) the active editor is not an
\* editor of the closed document.
ActiveEditorRegistered ==
    activeTextEditor # Undefined =>
        LET document == editors[activeTextEditor].document
        IN  openedDocumentUris[documents[document].uri.value] = document

\* C17: the visible-editor list and the registry correspond one to one:
\* every registered document has exactly one visible editor and the document
\* of every visible editor is the registered document of its uri.
RegistryMatchesVisibleEditors ==
    /\ \A u \in URIs :
           openedDocumentUris[u] # Undefined =>
               Cardinality({i \in 1..Len(visibleTextEditors) :
                   editors[visibleTextEditors[i]].document = openedDocumentUris[u]}) = 1
    /\ \A i \in 1..Len(visibleTextEditors) :
           LET document == editors[visibleTextEditors[i]].document
           IN  openedDocumentUris[documents[document].uri.value] = document

\* C18: when executeOnDocument calls the provider, the active editor is an
\* editor of the very document that was resolved from the registry and is
\* passed to the provider.
ProviderSeesItsEditor ==
    (/\ last.step = "dispatch"
     /\ last.op \in DocumentOps
     /\ Len(last.effects) >= 1
     /\ last.effects[1].call = Collaborator(last.op)) =>
        /\ last.effects[1].doc = openedDocumentUris[last.uri]
        /\ activeTextEditor # Undefined
        /\ editors[activeTextEditor].document = last.effects[1].doc

\* a request on a uri that was opened twice: the editor of the second
\* document is the active one, the editor of the first is still visible
ProviderSeesItsEditorWitness ==
    /\ last.step = "dispatch"
    /\ last.op \in Requests
    /\ Len(visibleTextEditors) >= 2
    /\ documents[editors[visibleTextEditors[1]].document].uri.value = last.uri
    /\ activeTextEditor = visibleTextEditors[Len(visibleTextEditors)]
    /\ activeTextEditor # visibleTextEditors[1]
    /\ last.effects[1].doc = editors[activeTextEditor].document

\* C19: codeLensResolve of a lens that a codeLens request on document D
\* returned attaches D to the lens, whatever opens and requests happened in
\* between.
LensResolvedAgainstItsDocument ==
    last.op = "codeLensResolve" => last.effects = <<Invoke(ResolveCodeLens, lens)>>
====
